---- MODULE Spec2Model ----
(***************************************************************************)
(* PayCrypt airdrop: the offline Merkle builder (generate-merkle.ts) and   *)
(* the on-chain distributor (PayCryptAirdrop).                             *)
(*                                                                         *)
(* Hashes are abstract: keccak256 is modelled as a collision-free function *)
(* whose value carries its preimage, prefixed by a small "mix" digit that  *)
(* gives hash values an order unrelated to the structure of the preimage.  *)
(* A byte string is a sequence of integers; an address is its 20-byte      *)
(* value, written as a number; a uint256 is a number.                      *)
(***************************************************************************)
EXTENDS Integers, Sequences, FiniteSets, TLC

\* ---------------------------------------------------------------- bounds
\* Addresses are 1..NumAddr.
NumAddr == 3
\* Longest eligible list.
MaxUsers == 3
\* Block timestamps are 0..MaxTime; the distributor is deployed at time 0.
MaxTime == 2
\* ethers.parseEther scales by 10^18; the model scales by WeiPerEther.
WeiPerEther == 10

Addresses == 1..NumAddr
\* Amount strings of the eligible list, in whole ether.
AmountStrings == {1, 2}

Min(S) == CHOOSE x \in S : \A y \in S : x <= y

\* ------------------------------------------------------------- hashing

RECURSIVE WeightedSum(_, _)
WeightedSum(bytes, i) ==
  IF i > Len(bytes) THEN 0 ELSE (i + 1) * bytes[i] + WeightedSum(bytes, i + 1)

\* keccak256 of a byte string: collision-free; ( = -1 and ) = -2 delimit the
\* preimage, so that the concatenation of two hashes splits in one way only.
Keccak256(bytes) == <<WeightedSum(bytes, 1) % 5, -1>> \o bytes \o <<-2>>

\* Buffer.compare, and < on bytes32: the lexicographic order. -1, 0 or 1.
BufferCompare(a, b) ==
  LET n == IF Len(a) < Len(b) THEN Len(a) ELSE Len(b)
      d == {i \in 1..n : a[i] # b[i]}
  IN  IF d = {}
        THEN (IF Len(a) < Len(b) THEN -1 ELSE IF Len(a) > Len(b) THEN 1 ELSE 0)
        ELSE (IF a[Min(d)] < b[Min(d)] THEN -1 ELSE 1)

\* ethers.parseEther on a whole-ether amount string.
ParseEther(amount) == amount * WeiPerEther

\* solidityPacked(['address','uint256'], ...) and abi.encodePacked(address, uint256):
\* 20 bytes of address followed by 32 bytes of amount.
EncodePackedAddressOnly(address, amountWei) == <<address>>
EncodePacked(address, amountWei) == <<address, amountWei>>

\* AirdropMerkleTree.createLeaf
CreateLeaf(address, amount) == Keccak256(EncodePacked(address, ParseEther(amount)))

\* ------------------------------------------------------- merkletreejs
\* The MerkleTree object is its layers and its sortPairs option.

\* if (sortPairs) combined.sort(Buffer.compare); hashFn(Buffer.concat(combined))
Combine(left, right, sortPairs) ==
  IF sortPairs /\ BufferCompare(left, right) > 0
    THEN Keccak256(right \o left)
    ELSE Keccak256(left \o right)

\* One round of MerkleTree._createHashes: pairs are combined, an odd last node
\* is pushed to the next layer unchanged.
NextLayer(nodes, sortPairs) ==
  [i \in 1..((Len(nodes) + 1) \div 2) |->
     IF 2 * i <= Len(nodes)
       THEN Combine(nodes[2 * i - 1], nodes[2 * i], sortPairs)
       ELSE nodes[2 * i - 1]]

\* MerkleTree._createHashes: layers[1] are the leaves, the last layer holds the root.
RECURSIVE CreateHashes(_, _)
CreateHashes(nodes, sortPairs) ==
  IF Len(nodes) <= 1 THEN <<nodes>>
  ELSE <<nodes>> \o CreateHashes(NextLayer(nodes, sortPairs), sortPairs)

\* new MerkleTree(leaves, ethers.keccak256, { sortPairs: false })
GenerateMerkleTreeUnsortedPairs(users) ==
  [layers |-> CreateHashes([i \in 1..Len(users) |->
                              CreateLeaf(users[i].address, users[i].amount)], FALSE),
   sortPairs |-> FALSE]
\* AirdropMerkleTree.generateMerkleTree: the leaves in list order (no sortLeaves),
\* new MerkleTree(leaves, ethers.keccak256, { sortPairs: true })
GenerateMerkleTree(users) ==
  [layers |-> CreateHashes([i \in 1..Len(users) |->
                              CreateLeaf(users[i].address, users[i].amount)], TRUE),
   sortPairs |-> TRUE]

\* MerkleTree.getRoot / getHexRoot: the empty buffer for a tree without leaves.
GetRoot(t) ==
  IF Len(t.layers[Len(t.layers)]) = 0 THEN <<>> ELSE t.layers[Len(t.layers)][1]

\* MerkleTree.getProof: the index of the LAST leaf equal to `leaf` (0-based, -1
\* when there is none), then the sibling of each layer, when it exists.
LeafIndex(layers, leaf) ==
  LET hits == {i \in 1..Len(layers[1]) : layers[1][i] = leaf}
  IN  IF hits = {} THEN -1 ELSE (CHOOSE i \in hits : \A j \in hits : j <= i) - 1

RECURSIVE ProofFrom(_, _, _)
ProofFrom(layers, i, index) ==
  IF i > Len(layers) THEN <<>>
  ELSE LET layer     == layers[i]
           pairIndex == IF index % 2 = 1 THEN index - 1 ELSE index + 1
       IN  (IF pairIndex < Len(layer) THEN <<layer[pairIndex + 1]>> ELSE <<>>)
             \o ProofFrom(layers, i + 1, index \div 2)

\* MerkleTree.getHexProof(leaf)
GetHexProof(t, leaf) ==
  LET index == LeafIndex(t.layers, leaf)
  IN  IF index <= -1 THEN <<>> ELSE ProofFrom(t.layers, 1, index)

\* MerkleTree.verify: fold the proof over the target; with sortPairs the smaller
\* of the two goes first, without it a proof item given as a hex string is taken
\* as a left node.
RECURSIVE ProcessProofJs(_, _, _, _)
ProcessProofJs(proof, i, hash, sortPairs) ==
  IF i > Len(proof) THEN hash
  ELSE ProcessProofJs(proof, i + 1,
         IF sortPairs /\ BufferCompare(hash, proof[i]) = -1
           THEN Keccak256(hash \o proof[i])
           ELSE Keccak256(proof[i] \o hash),
         sortPairs)

TreeVerify(t, proof, targetNode, root) ==
  BufferCompare(ProcessProofJs(proof, 1, targetNode, t.sortPairs), root) = 0

\* AirdropMerkleTree.getMerkleRoot
GetMerkleRoot(t) == GetRoot(t)

\* getProof that looks the amount up without converting it to wei.
GetProofRawAmount(t, address, amount) ==
  GetHexProof(t, Keccak256(EncodePacked(address, amount)))
\* getProof that finds the entry by its address alone.
GetProofByAddress(t, address, amount) ==
  LET hits == {i \in 1..Len(t.layers[1]) :
                 \E m \in AmountStrings : t.layers[1][i] = CreateLeaf(address, m)}
  IN  IF hits = {} THEN <<>>
      ELSE GetHexProof(t, t.layers[1][CHOOSE i \in hits : TRUE])
\* AirdropMerkleTree.getProof
GetProof(t, address, amount) == GetHexProof(t, CreateLeaf(address, amount))

\* AirdropMerkleTree.verifyProof
VerifyProof(t, address, amount, proof) ==
  TreeVerify(t, proof, CreateLeaf(address, amount), GetMerkleRoot(t))

\* ------------------------------------------------------------ the builder

VARIABLES
  eligibleUsers,  \* AirdropMerkleTree.eligibleUsers
  tree,           \* AirdropMerkleTree.tree: the layers of the MerkleTree
  call            \* the last call on the builder, with what it returned

builderVars == <<eligibleUsers, tree, call>>

\* EligibleUser: { address, amount }
Entries == [address : Addresses, amount : AmountStrings]
\* One entry per address per round.
UserLists ==
  {l \in UNION {[1..n -> Entries] : n \in 1..MaxUsers} :
     \A i, j \in 1..Len(l) : l[i].address = l[j].address => i = j}

Listed(users, address, amount) ==
  \E i \in 1..Len(users) : users[i].address = address /\ users[i].amount = amount

NoCall == [op |-> "new", address |-> 0, amount |-> 0, proof |-> <<>>,
           proofOut |-> <<>>, verified |-> FALSE]

\* new AirdropMerkleTree(users)
TreeInit ==
  /\ eligibleUsers \in UserLists
  /\ tree = GenerateMerkleTree(eligibleUsers)
  /\ call = NoCall

\* The proofs the tree issues for its own entries, and the empty proof.
IssuedProofs ==
  {GetProof(tree, eligibleUsers[i].address, eligibleUsers[i].amount) :
     i \in 1..Len(eligibleUsers)} \cup {<<>>}

\* airdropTree.getProof(address, amount)
GetProofCall(address, amount) ==
  /\ call' = [op |-> "getProof", address |-> address, amount |-> amount,
              proof |-> <<>>, proofOut |-> GetProof(tree, address, amount),
              verified |-> FALSE]
  /\ UNCHANGED <<eligibleUsers, tree>>

\* airdropTree.verifyProof(address, amount, proof)
VerifyProofCall(address, amount, proof) ==
  /\ call' = [op |-> "verifyProof", address |-> address, amount |-> amount,
              proof |-> proof, proofOut |-> <<>>,
              verified |-> VerifyProof(tree, address, amount, proof)]
  /\ UNCHANGED <<eligibleUsers, tree>>

\* new AirdropMerkleTree(the same list with entries i and i+1 exchanged); every
\* permutation of the list is a sequence of such exchanges.
Reorder(i) ==
  /\ i < Len(eligibleUsers)
  /\ eligibleUsers' = [eligibleUsers EXCEPT ![i] = eligibleUsers[i + 1],
                                            ![i + 1] = eligibleUsers[i]]
  /\ tree' = GenerateMerkleTree(eligibleUsers')
  /\ call' = [NoCall EXCEPT !.op = "reorder", !.address = i]

GetProofQuery == \E a \in Addresses, m \in AmountStrings : GetProofCall(a, m)
VerifyProofQuery ==
  \E p \in IssuedProofs : \E a \in Addresses, m \in AmountStrings :
    VerifyProofCall(a, m, p)
ReorderList == \E i \in 1..MaxUsers : Reorder(i)

\* -------------------------------------------- OpenZeppelin MerkleProof

\* MerkleProof._hashPair: a < b ? keccak256(a, b) : keccak256(b, a)
HashPair(a, b) ==
  IF BufferCompare(a, b) = -1 THEN Keccak256(a \o b) ELSE Keccak256(b \o a)

\* MerkleProof.processProof
RECURSIVE ProcessProof(_, _, _)
ProcessProof(proof, i, computedHash) ==
  IF i > Len(proof) THEN computedHash
  ELSE ProcessProof(proof, i + 1, HashPair(computedHash, proof[i]))

\* MerkleProof.verify(proof, root, leaf)
MerkleProofVerify(proof, root, leaf) == ProcessProof(proof, 1, leaf) = root

\* -------------------------------------------------------- the distributor

VARIABLES
  merkleRoot,      \* bytes32 public merkleRoot
  claimPeriodEnd,  \* uint256 public claimPeriodEnd
  totalClaimable,  \* uint256 public totalClaimable
  totalClaimed,    \* uint256 public totalClaimed
  hasClaimed,      \* mapping(address => bool)
  claimedAmount,   \* mapping(address => uint256)
  balanceOf,       \* the token's balances
  blockTimestamp,  \* block.timestamp
  claimEvents,     \* per claimer, the TokensClaimed events in the chain's log
  last             \* the last transaction: its call, its outcome, what it emitted

distVars == <<merkleRoot, claimPeriodEnd, totalClaimable, totalClaimed, hasClaimed,
              claimedAmount, balanceOf, blockTimestamp, claimEvents, last>>
\* the storage of PayCryptAirdrop
storage == <<merkleRoot, claimPeriodEnd, totalClaimable, totalClaimed, hasClaimed,
             claimedAmount>>

\* Accounts: the claimers, the owner (deployer) and the distributor contract.
Owner == 8
Airdrop == 9
Claimers == {1, 2}
Holders == Claimers \cup {Owner, Airdrop}

\* The rounds the builder was run for: a list of three (an odd node), and a
\* corrected list of one (its root is its leaf, its proof is empty) that gives
\* address 1 another amount and drops address 2.
Round1 == <<[address |-> 1, amount |-> 1], [address |-> 2, amount |-> 2],
            [address |-> 3, amount |-> 1]>>
Round2 == <<[address |-> 1, amount |-> 2]>>
Rounds == {Round1, Round2}
RoundRoots == {GetMerkleRoot(GenerateMerkleTree(r)) : r \in Rounds}
\* The proofs the builder issued to the claimers, and the empty proof.
RoundProofs ==
  UNION {{GetProof(GenerateMerkleTree(r), r[i].address, r[i].amount) :
            i \in {j \in 1..Len(r) : r[j].address \in Claimers}} : r \in Rounds}
    \cup {<<>>}

RECURSIVE RoundTotal(_, _)
RoundTotal(r, i) ==
  IF i > Len(r) THEN 0 ELSE ParseEther(r[i].amount) + RoundTotal(r, i + 1)

\* TOTAL_TOKENS of the generated deploy script: the sum of the list's amounts.
Caps == {RoundTotal(r, 1) : r \in Rounds}
\* What the deployer holds when the distributor is deployed.
OwnerTokens == RoundTotal(Round1, 1)
\* The amounts claimTokens is called with, and the window ends the owner passes.
ClaimAmounts == {0} \cup {ParseEther(m) : m \in AmountStrings}
EndTimes == 1..(MaxTime + 1)
\* Who calls the owner's functions: the owner, and somebody else.
AdminCallers == {Owner, 1}
\* The calls of updateAirdrop: the owner's, and one by somebody else.
UpdateInputs ==
  {<<Owner, r, e, t>> : r \in RoundRoots, e \in EndTimes, t \in Caps}
    \cup {<<1, GetMerkleRoot(GenerateMerkleTree(Round2)), MaxTime + 1,
            RoundTotal(Round2, 1)>>}

NoTx == [op |-> "constructor", caller |-> Owner, amount |-> 0, proof |-> <<>>,
         result |-> "ok", emitted |-> <<>>]

Tx(op, caller, amount, proof, result, emitted) ==
  [op |-> op, caller |-> caller, amount |-> amount, proof |-> proof,
   result |-> result, emitted |-> emitted]

\* constructor(_token, _merkleRoot, _claimPeriodEnd, _totalClaimable) at time 0,
\* by the deployer, who holds the tokens; the distributor is not yet funded.
DistInit ==
  /\ merkleRoot \in RoundRoots
  /\ claimPeriodEnd \in EndTimes
  /\ totalClaimable \in Caps
  /\ totalClaimed = 0
  /\ hasClaimed = [a \in Claimers |-> FALSE]
  /\ claimedAmount = [a \in Claimers |-> 0]
  /\ balanceOf = [h \in Holders |-> IF h = Owner THEN OwnerTokens ELSE 0]
  /\ blockTimestamp = 0
  /\ claimEvents = [a \in Claimers |-> 0]
  /\ last = NoTx

\* A leaf packed as (amount, sender), unlike the builder's (address, amount).
ClaimLeafAmountFirst(sender, amount) == Keccak256(<<amount, sender>>)
\* bytes32 leaf = keccak256(abi.encodePacked(msg.sender, amount))
ClaimLeaf(sender, amount) == Keccak256(EncodePacked(sender, amount))

\* The checks with a cap that must stay above the claimed total.
ClaimChecksStrictCap(root, end, cap, claimedTotal, claimed, now, caller, amount, merkleProof) ==
  IF now > end THEN "ClaimPeriodEnded"
  ELSE IF claimed[caller] THEN "AlreadyClaimed"
  ELSE IF amount = 0 THEN "InvalidAmount"
  ELSE IF ~MerkleProofVerify(merkleProof, root, ClaimLeaf(caller, amount))
    THEN "InvalidProof"
  ELSE IF claimedTotal + amount >= cap THEN "InsufficientTokens"
  ELSE "none"
\* The checks with the cap before the proof, the order of canClaim.
ClaimChecksCapFirst(root, end, cap, claimedTotal, claimed, now, caller, amount, merkleProof) ==
  IF now > end THEN "ClaimPeriodEnded"
  ELSE IF claimed[caller] THEN "AlreadyClaimed"
  ELSE IF amount = 0 THEN "InvalidAmount"
  ELSE IF claimedTotal + amount > cap THEN "InsufficientTokens"
  ELSE IF ~MerkleProofVerify(merkleProof, root, ClaimLeaf(caller, amount))
    THEN "InvalidProof"
  ELSE "none"
\* The checks of claimTokens, in order, on given values of the storage and of
\* the block time: the error it reverts with, or "none".
ClaimChecks(root, end, cap, claimedTotal, claimed, now, caller, amount, merkleProof) ==
  IF now > end THEN "ClaimPeriodEnded"
  ELSE IF claimed[caller] THEN "AlreadyClaimed"
  ELSE IF amount = 0 THEN "InvalidAmount"
  ELSE IF ~MerkleProofVerify(merkleProof, root, ClaimLeaf(caller, amount))
    THEN "InvalidProof"
  ELSE IF claimedTotal + amount > cap THEN "InsufficientTokens"
  ELSE "none"

\* The checks of claimTokens on the current storage, and two variants of them.
ClaimRevertLateWindow(caller, amount, merkleProof) ==
  IF blockTimestamp >= claimPeriodEnd THEN "ClaimPeriodEnded"
  ELSE IF hasClaimed[caller] THEN "AlreadyClaimed"
  ELSE IF amount = 0 THEN "InvalidAmount"
  ELSE IF ~MerkleProofVerify(merkleProof, merkleRoot, ClaimLeaf(caller, amount))
    THEN "InvalidProof"
  ELSE IF totalClaimed + amount > totalClaimable THEN "InsufficientTokens"
  ELSE "none"
ClaimRevertNoClaimedCheck(caller, amount, merkleProof) ==
  IF blockTimestamp > claimPeriodEnd THEN "ClaimPeriodEnded"
  ELSE IF amount = 0 THEN "InvalidAmount"
  ELSE IF ~MerkleProofVerify(merkleProof, merkleRoot, ClaimLeaf(caller, amount))
    THEN "InvalidProof"
  ELSE IF totalClaimed + amount > totalClaimable THEN "InsufficientTokens"
  ELSE "none"
ClaimRevert(caller, amount, merkleProof) ==
  ClaimChecks(merkleRoot, claimPeriodEnd, totalClaimable, totalClaimed, hasClaimed,
              blockTimestamp, caller, amount, merkleProof)

\* A reverted transaction: nothing but the record of the call changes.
Reverted(op, caller, amount, proof, error) ==
  /\ last' = Tx(op, caller, amount, proof, error, <<>>)
  /\ UNCHANGED <<merkleRoot, claimPeriodEnd, totalClaimable, totalClaimed,
                 hasClaimed, claimedAmount, balanceOf, blockTimestamp, claimEvents>>

\* claimTokens that returns, instead of reverting, when the cap is exceeded, after
\* it has marked the caller.
ClaimTokensMarksEarly(caller, amount, merkleProof) ==
  LET error == ClaimRevert(caller, amount, merkleProof)
  IN  IF error = "InsufficientTokens"
        THEN /\ hasClaimed' = [hasClaimed EXCEPT ![caller] = TRUE]
             /\ last' = Tx("claimTokens", caller, amount, merkleProof, error, <<>>)
             /\ UNCHANGED <<merkleRoot, claimPeriodEnd, totalClaimable, totalClaimed,
                            claimedAmount, balanceOf, blockTimestamp, claimEvents>>
      ELSE IF error # "none"
        THEN Reverted("claimTokens", caller, amount, merkleProof, error)
      ELSE IF balanceOf[Airdrop] < amount
        THEN Reverted("claimTokens", caller, amount, merkleProof, "TransferFailed")
      ELSE
        /\ hasClaimed' = [hasClaimed EXCEPT ![caller] = TRUE]
        /\ claimedAmount' = [claimedAmount EXCEPT ![caller] = amount]
        /\ totalClaimed' = totalClaimed + amount
        /\ balanceOf' = [balanceOf EXCEPT ![Airdrop] = @ - amount,
                                          ![caller] = @ + amount]
        /\ claimEvents' = [claimEvents EXCEPT ![caller] = @ + 1]
        /\ last' = Tx("claimTokens", caller, amount, merkleProof, "ok",
                      <<[event |-> "TokensClaimed", claimer |-> caller,
                         amount |-> amount, timestamp |-> blockTimestamp]>>)
        /\ UNCHANGED <<merkleRoot, claimPeriodEnd, totalClaimable, blockTimestamp>>
\* claimTokens that does not add the amount to totalClaimed.
ClaimTokensNoTotal(caller, amount, merkleProof) ==
  LET error == ClaimRevert(caller, amount, merkleProof)
  IN  IF error # "none"
        THEN Reverted("claimTokens", caller, amount, merkleProof, error)
      ELSE IF balanceOf[Airdrop] < amount
        THEN Reverted("claimTokens", caller, amount, merkleProof, "TransferFailed")
      ELSE
        /\ hasClaimed' = [hasClaimed EXCEPT ![caller] = TRUE]
        /\ claimedAmount' = [claimedAmount EXCEPT ![caller] = amount]
        /\ balanceOf' = [balanceOf EXCEPT ![Airdrop] = @ - amount,
                                          ![caller] = @ + amount]
        /\ claimEvents' = [claimEvents EXCEPT ![caller] = @ + 1]
        /\ last' = Tx("claimTokens", caller, amount, merkleProof, "ok",
                      <<[event |-> "TokensClaimed", claimer |-> caller,
                         amount |-> amount, timestamp |-> blockTimestamp]>>)
        /\ UNCHANGED <<merkleRoot, claimPeriodEnd, totalClaimable, totalClaimed,
                       blockTimestamp>>
\* claimTokens(amount, merkleProof) by msg.sender = caller. safeTransfer reverts
\* the whole call when the distributor holds less than amount.
ClaimTokens(caller, amount, merkleProof) ==
  LET error == ClaimRevert(caller, amount, merkleProof)
  IN  IF error # "none"
        THEN Reverted("claimTokens", caller, amount, merkleProof, error)
      ELSE IF balanceOf[Airdrop] < amount
        THEN Reverted("claimTokens", caller, amount, merkleProof, "TransferFailed")
      ELSE
        /\ hasClaimed' = [hasClaimed EXCEPT ![caller] = TRUE]
        /\ claimedAmount' = [claimedAmount EXCEPT ![caller] = amount]
        /\ totalClaimed' = totalClaimed + amount
        /\ balanceOf' = [balanceOf EXCEPT ![Airdrop] = @ - amount,
                                          ![caller] = @ + amount]
        /\ claimEvents' = [claimEvents EXCEPT ![caller] = @ + 1]
        /\ last' = Tx("claimTokens", caller, amount, merkleProof, "ok",
                      <<[event |-> "TokensClaimed", claimer |-> caller,
                         amount |-> amount, timestamp |-> blockTimestamp]>>)
        /\ UNCHANGED <<merkleRoot, claimPeriodEnd, totalClaimable, blockTimestamp>>

\* updateAirdrop that starts a new round with empty claim records.
UpdateAirdropResets(caller, root, end, cap) ==
  IF caller # Owner
    THEN Reverted("updateAirdrop", caller, end, <<>>, "NotOwner")
  ELSE IF end <= blockTimestamp
    THEN Reverted("updateAirdrop", caller, end, <<>>, "ClaimPeriodEnded")
  ELSE
    /\ merkleRoot' = root
    /\ claimPeriodEnd' = end
    /\ totalClaimable' = cap
    /\ hasClaimed' = [a \in Claimers |-> FALSE]
    /\ claimedAmount' = [a \in Claimers |-> 0]
    /\ last' = Tx("updateAirdrop", caller, end, <<>>, "ok",
                  <<[event |-> "AirdropUpdated", newMerkleRoot |-> root,
                     newClaimPeriodEnd |-> end, totalTokens |-> cap]>>)
    /\ UNCHANGED <<totalClaimed, balanceOf, blockTimestamp, claimEvents>>
\* updateAirdrop(_merkleRoot, _claimPeriodEnd, _totalClaimable), onlyOwner
UpdateAirdrop(caller, root, end, cap) ==
  IF caller # Owner
    THEN Reverted("updateAirdrop", caller, end, <<>>, "NotOwner")
  ELSE IF end <= blockTimestamp
    THEN Reverted("updateAirdrop", caller, end, <<>>, "ClaimPeriodEnded")
  ELSE
    /\ merkleRoot' = root
    /\ claimPeriodEnd' = end
    /\ totalClaimable' = cap
    /\ last' = Tx("updateAirdrop", caller, end, <<>>, "ok",
                  <<[event |-> "AirdropUpdated", newMerkleRoot |-> root,
                     newClaimPeriodEnd |-> end, totalTokens |-> cap]>>)
    /\ UNCHANGED <<totalClaimed, hasClaimed, claimedAmount, balanceOf,
                   blockTimestamp, claimEvents>>

\* canClaim(user, amount, merkleProof), a view
CanClaim(user, amount, merkleProof) ==
  IF blockTimestamp > claimPeriodEnd THEN FALSE
  ELSE IF hasClaimed[user] THEN FALSE
  ELSE IF amount = 0 THEN FALSE
  ELSE IF totalClaimed + amount > totalClaimable THEN FALSE
  ELSE MerkleProofVerify(merkleProof, merkleRoot, ClaimLeaf(user, amount))

\* getClaimStatus that takes no account of the window
GetClaimStatusIgnoringWindow(user) ==
  [claimed |-> hasClaimed[user], amount |-> claimedAmount[user],
   canStillClaim |-> ~hasClaimed[user]]
\* getClaimStatus(user), a view
GetClaimStatus(user) ==
  [claimed |-> hasClaimed[user], amount |-> claimedAmount[user],
   canStillClaim |-> ~hasClaimed[user] /\ blockTimestamp <= claimPeriodEnd]

\* getAirdropStats(), a view. Solidity 0.8 checks the subtraction: the call
\* reverts with Panic(0x11) when totalClaimed is greater than totalClaimable.
GetAirdropStats ==
  IF totalClaimable - totalClaimed < 0
    THEN [reverted |-> TRUE, values |-> <<>>]
    ELSE [reverted |-> FALSE,
          values |-> <<totalClaimable, totalClaimed, totalClaimable - totalClaimed,
                       claimPeriodEnd, blockTimestamp <= claimPeriodEnd>>]

\* emergencyWithdraw without the check of the window
EmergencyWithdrawAnyTime(caller) ==
  IF caller # Owner
    THEN Reverted("emergencyWithdraw", caller, 0, <<>>, "NotOwner")
  ELSE
    /\ balanceOf' = [balanceOf EXCEPT ![Airdrop] = 0,
                                      ![Owner] = @ + balanceOf[Airdrop]]
    /\ last' = Tx("emergencyWithdraw", caller, 0, <<>>, "ok",
                  IF balanceOf[Airdrop] > 0
                    THEN <<[event |-> "EmergencyWithdraw", owner |-> Owner,
                            amount |-> balanceOf[Airdrop]]>>
                    ELSE <<>>)
    /\ UNCHANGED <<merkleRoot, claimPeriodEnd, totalClaimable, totalClaimed,
                   hasClaimed, claimedAmount, blockTimestamp, claimEvents>>
\* emergencyWithdraw(), onlyOwner
EmergencyWithdraw(caller) ==
  IF caller # Owner
    THEN Reverted("emergencyWithdraw", caller, 0, <<>>, "NotOwner")
  ELSE IF blockTimestamp <= claimPeriodEnd
    THEN Reverted("emergencyWithdraw", caller, 0, <<>>, "ClaimPeriodNotStarted")
  ELSE
    /\ balanceOf' = [balanceOf EXCEPT ![Airdrop] = 0,
                                      ![Owner] = @ + balanceOf[Airdrop]]
    /\ last' = Tx("emergencyWithdraw", caller, 0, <<>>, "ok",
                  IF balanceOf[Airdrop] > 0
                    THEN <<[event |-> "EmergencyWithdraw", owner |-> Owner,
                            amount |-> balanceOf[Airdrop]]>>
                    ELSE <<>>)
    /\ UNCHANGED <<merkleRoot, claimPeriodEnd, totalClaimable, totalClaimed,
                   hasClaimed, claimedAmount, blockTimestamp, claimEvents>>

\* extendClaimPeriod that compares the new end with the block time, as
\* updateAirdrop does, and not with the current end.
ExtendClaimPeriodFromNow(caller, newEndTime) ==
  IF caller # Owner
    THEN Reverted("extendClaimPeriod", caller, newEndTime, <<>>, "NotOwner")
  ELSE IF newEndTime <= blockTimestamp
    THEN Reverted("extendClaimPeriod", caller, newEndTime, <<>>, "InvalidAmount")
  ELSE
    /\ claimPeriodEnd' = newEndTime
    /\ last' = Tx("extendClaimPeriod", caller, newEndTime, <<>>, "ok", <<>>)
    /\ UNCHANGED <<merkleRoot, totalClaimable, totalClaimed, hasClaimed,
                   claimedAmount, balanceOf, blockTimestamp, claimEvents>>
\* extendClaimPeriod(newEndTime), onlyOwner
ExtendClaimPeriod(caller, newEndTime) ==
  IF caller # Owner
    THEN Reverted("extendClaimPeriod", caller, newEndTime, <<>>, "NotOwner")
  ELSE IF newEndTime <= claimPeriodEnd
    THEN Reverted("extendClaimPeriod", caller, newEndTime, <<>>, "InvalidAmount")
  ELSE
    /\ claimPeriodEnd' = newEndTime
    /\ last' = Tx("extendClaimPeriod", caller, newEndTime, <<>>, "ok", <<>>)
    /\ UNCHANGED <<merkleRoot, totalClaimable, totalClaimed, hasClaimed,
                   claimedAmount, balanceOf, blockTimestamp, claimEvents>>

\* token.transfer(airdrop, TOTAL_TOKENS) of the deploy script, by the deployer
Fund(amount) ==
  /\ balanceOf[Owner] >= amount
  /\ balanceOf' = [balanceOf EXCEPT ![Owner] = @ - amount, ![Airdrop] = @ + amount]
  /\ last' = Tx("fund", Owner, amount, <<>>, "ok", <<>>)
  /\ UNCHANGED <<merkleRoot, claimPeriodEnd, totalClaimable, totalClaimed,
                 hasClaimed, claimedAmount, blockTimestamp, claimEvents>>

\* A later block.
Tick ==
  /\ blockTimestamp < MaxTime
  /\ blockTimestamp' = blockTimestamp + 1
  /\ last' = Tx("tick", Owner, 0, <<>>, "ok", <<>>)
  /\ UNCHANGED <<merkleRoot, claimPeriodEnd, totalClaimable, totalClaimed,
                 hasClaimed, claimedAmount, balanceOf, claimEvents>>

ClaimTokensCall ==
  \E a \in Claimers, w \in ClaimAmounts, p \in RoundProofs : ClaimTokens(a, w, p)
UpdateAirdropCall == \E u \in UpdateInputs : UpdateAirdrop(u[1], u[2], u[3], u[4])
EmergencyWithdrawCall == \E c \in AdminCallers : EmergencyWithdraw(c)
ExtendClaimPeriodCall ==
  \E c \in AdminCallers, e \in EndTimes : ExtendClaimPeriod(c, e)
FundCall == \E w \in Caps : Fund(w)

\* ------------------------------------------- claimTokens, step by step
\* claimTokens is nonReentrant and calls the token (safeTransfer) after it has
\* written its own state. Here the call is split at the transfer, during which
\* the token, or a contract it calls, may call claimTokens again.

VARIABLES
  guardStatus,  \* ReentrancyGuard._status
  pending       \* the claimTokens call whose transfer is running, or NoPending

guardVars == <<guardStatus, pending>>

NoPending == [caller |-> 0, amount |-> 0, proof |-> <<>>,
              before |-> <<>>]

GuardIdle ==
  /\ guardStatus = "NOT_ENTERED"
  /\ pending = NoPending

\* nonReentrant without its require.
NonReentrantBeforeUnchecked == TRUE
\* ReentrancyGuard._nonReentrantBefore: require(_status != _ENTERED)
NonReentrantBefore == guardStatus # "ENTERED"

\* claimTokens up to the transfer: the guard is taken, the checks run, the
\* caller's record and totalClaimed are written; a failing check reverts.
ClaimEnter(caller, amount, merkleProof) ==
  /\ pending = NoPending
  /\ LET error == ClaimRevert(caller, amount, merkleProof)
     IN  IF ~NonReentrantBefore
           THEN /\ Reverted("claimTokens", caller, amount, merkleProof, "ReentrantCall")
                /\ UNCHANGED guardVars
         ELSE IF error # "none"
           THEN /\ Reverted("claimTokens", caller, amount, merkleProof, error)
                /\ UNCHANGED guardVars
         ELSE
           /\ guardStatus' = "ENTERED"
           /\ pending' = [caller |-> caller, amount |-> amount, proof |-> merkleProof,
                          before |-> <<hasClaimed, claimedAmount, totalClaimed>>]
           /\ hasClaimed' = [hasClaimed EXCEPT ![caller] = TRUE]
           /\ claimedAmount' = [claimedAmount EXCEPT ![caller] = amount]
           /\ totalClaimed' = totalClaimed + amount
           /\ UNCHANGED <<merkleRoot, claimPeriodEnd, totalClaimable, balanceOf,
                          blockTimestamp, claimEvents, last>>

\* A claimTokens call made from inside the running transfer, by any address: the
\* guard's require comes first; the call that passes it runs as a whole, its own
\* transfer included. The caller of the nested call catches its revert.
ClaimNested(caller, amount, merkleProof) ==
  /\ pending # NoPending
  /\ IF ~NonReentrantBefore
       THEN Reverted("claimTokens", caller, amount, merkleProof, "ReentrantCall")
       ELSE ClaimTokens(caller, amount, merkleProof)
  /\ UNCHANGED guardVars

\* A failed transfer that returns false instead of reverting, its result not
\* checked: the call ends with what ClaimEnter wrote.
ClaimTransferDoneUnchecked ==
  /\ pending # NoPending
  /\ guardStatus' = "NOT_ENTERED"
  /\ pending' = NoPending
  /\ IF balanceOf[Airdrop] < pending.amount
       THEN /\ last' = Tx("claimTokens", pending.caller, pending.amount,
                          pending.proof, "TransferFailed", <<>>)
            /\ UNCHANGED <<merkleRoot, claimPeriodEnd, totalClaimable, totalClaimed,
                           hasClaimed, claimedAmount, balanceOf, blockTimestamp,
                           claimEvents>>
       ELSE /\ balanceOf' = [balanceOf EXCEPT ![Airdrop] = @ - pending.amount,
                                              ![pending.caller] = @ + pending.amount]
            /\ claimEvents' = [claimEvents EXCEPT ![pending.caller] = @ + 1]
            /\ last' = Tx("claimTokens", pending.caller, pending.amount,
                          pending.proof, "ok",
                          <<[event |-> "TokensClaimed", claimer |-> pending.caller,
                             amount |-> pending.amount,
                             timestamp |-> blockTimestamp]>>)
            /\ UNCHANGED <<merkleRoot, claimPeriodEnd, totalClaimable, totalClaimed,
                           hasClaimed, claimedAmount, blockTimestamp>>
\* The transfer returns: the event is emitted and the guard released; a failed
\* transfer reverts the whole call, what ClaimEnter wrote included.
ClaimTransferDone ==
  /\ pending # NoPending
  /\ guardStatus' = "NOT_ENTERED"
  /\ pending' = NoPending
  /\ IF balanceOf[Airdrop] < pending.amount
       THEN /\ hasClaimed' = pending.before[1]
            /\ claimedAmount' = pending.before[2]
            /\ totalClaimed' = pending.before[3]
            /\ last' = Tx("claimTokens", pending.caller, pending.amount,
                          pending.proof, "TransferFailed", <<>>)
            /\ UNCHANGED <<merkleRoot, claimPeriodEnd, totalClaimable, balanceOf,
                           blockTimestamp, claimEvents>>
       ELSE /\ balanceOf' = [balanceOf EXCEPT ![Airdrop] = @ - pending.amount,
                                              ![pending.caller] = @ + pending.amount]
            /\ claimEvents' = [claimEvents EXCEPT ![pending.caller] = @ + 1]
            /\ last' = Tx("claimTokens", pending.caller, pending.amount,
                          pending.proof, "ok",
                          <<[event |-> "TokensClaimed", claimer |-> pending.caller,
                             amount |-> pending.amount,
                             timestamp |-> blockTimestamp]>>)
            /\ UNCHANGED <<merkleRoot, claimPeriodEnd, totalClaimable, totalClaimed,
                           hasClaimed, claimedAmount, blockTimestamp>>

ClaimEnterCall ==
  \E a \in Claimers, w \in ClaimAmounts, p \in RoundProofs : ClaimEnter(a, w, p)
ClaimNestedCall ==
  \E a \in Claimers, w \in ClaimAmounts, p \in RoundProofs : ClaimNested(a, w, p)

\* -------------------------------------------------------- the claim page
\* AirdropClaimPage (reownWallet.tsx). An address string is the sequence of its
\* characters after "0x": a digit is its value, a lower-case letter a..f is
\* 10..15 and an upper-case letter A..F is 20..25.

VARIABLES
  walletAddress,  \* useWeb3ModalAccount().address, NoWallet when not connected
  claimData,      \* useState<ClaimData | null>
  effectPending   \* the effect on [isConnected, address, chainId] has yet to run

uiVars == <<walletAddress, claimData, effectPending>>

\* Address strings are UiAddrLen characters long, over these characters: two
\* digits, the letter c and the letter C.
UiAddrLen == 3
UiChars == {4, 7, 12, 22}
WalletAddresses == [1..UiAddrLen -> UiChars]
NoWallet == <<>>
Null == [address |-> <<>>, amount |-> 0, proof |-> <<>>]

\* String.prototype.toLowerCase
ToLowerCase(str) ==
  [i \in 1..Len(str) |-> IF str[i] \in 20..25 THEN str[i] - 10 ELSE str[i]]

\* The table of the page: one entry, under its address as written in the source,
\* in mixed case ("0x742d35Cc...": here 7, C, c, c, ...).
TableAddress == [i \in 1..UiAddrLen |-> IF i = 1 THEN 7 ELSE IF i = 2 THEN 22 ELSE 12]
ELIGIBLE_ADDRESSES ==
  [key \in {TableAddress} |->
     [address |-> TableAddress, amount |-> 1000 * WeiPerEther,
      proof |-> <<Keccak256(<<1>>), Keccak256(<<2>>)>>]]

\* frontendData of generateAirdropData: each entry under its lower-cased address.
FrontendData(entries) ==
  [key \in {ToLowerCase(e.address) : e \in entries} |->
     CHOOSE e \in entries : ToLowerCase(e.address) = key]

\* table[key], undefined when the table has no such key
Lookup(table, key) == IF key \in DOMAIN table THEN <<table[key]>> ELSE <<>>

UiIdle ==
  /\ walletAddress = NoWallet
  /\ claimData = Null
  /\ effectPending = FALSE

\* The wallet connects, or changes account: the effect is due.
ConnectWallet(addr) ==
  /\ walletAddress' = addr
  /\ effectPending' = TRUE
  /\ UNCHANGED claimData

\* The wallet disconnects: isConnected is false and the effect does nothing.
DisconnectWallet ==
  /\ walletAddress # NoWallet
  /\ walletAddress' = NoWallet
  /\ effectPending' = FALSE
  /\ UNCHANGED claimData

\* checkEligibility, run by the effect:
\* setClaimData(ELIGIBLE_ADDRESSES[address.toLowerCase()] || null)
CheckEligibility ==
  /\ effectPending
  /\ walletAddress # NoWallet
  /\ LET eligible == Lookup(ELIGIBLE_ADDRESSES, ToLowerCase(walletAddress))
     IN  claimData' = IF eligible # <<>> THEN eligible[1] ELSE Null
  /\ effectPending' = FALSE
  /\ UNCHANGED walletAddress

ConnectWalletCall == \E addr \in WalletAddresses : ConnectWallet(addr)

\* ------------------------------------------------- the generator script
\* generate-merkle.ts run directly: generateAirdropData(), then generateCSV().
\* The script is synchronous; each statement that builds the tree or touches
\* the file system is a step, so the files on disk are seen after every one.

VARIABLES
  genUsers,     \* ELIGIBLE_USERS
  genPc,        \* the statement of generateAirdropData to run next
  genPromise,   \* the promise of generateAirdropData(), or what ended the run
  airdropTree,  \* airdropTree of generateAirdropData, <<>> before it is built
  outputDir,    \* ./airdrop-data exists
  written       \* the files written by this run

genVars == <<genUsers, genPc, genPromise, airdropTree, outputDir, written>>

\* An address string ethers.getAddress rejects (as the second entry of
\* ELIGIBLE_USERS), and an amount string ethers.parseEther rejects.
BadAddress == 0
NotANumber == -1
GenEntries ==
  [address : Addresses \cup {BadAddress}, amount : AmountStrings \cup {NotANumber}]
GenLists == UNION {[1..n -> GenEntries] : n \in 0..MaxUsers}

\* createLeaf throws: parseEther on the amount, or solidityPackedKeccak256 on
\* the address.
CreateLeafThrows(address, amount) == amount = NotANumber \/ address = BadAddress

\* new AirdropMerkleTree(users) throws: generateMerkleTree maps createLeaf over
\* the users and catches nothing.
ConstructorThrows(users) ==
  \E i \in 1..Len(users) : CreateLeafThrows(users[i].address, users[i].amount)

\* The statements of generateAirdropData, in the order of the source.
GenerateAirdropDataConfigFirst ==
  <<"mkdir", "deployment-config.json", "tree", "proofs", "eligible-addresses.json",
    "eligible-users-detailed.json", "deploy.ts", "verify">>
GenerateAirdropData ==
  <<"tree", "proofs", "mkdir", "deployment-config.json", "eligible-addresses.json",
    "eligible-users-detailed.json", "deploy.ts", "verify">>

GenFiles ==
  {"deployment-config.json", "eligible-addresses.json",
   "eligible-users-detailed.json", "deploy.ts", "eligible-users.csv"}

Statement ==
  IF genPc \in 1..Len(GenerateAirdropData) THEN GenerateAirdropData[genPc] ELSE "return"

GenInit ==
  /\ genUsers \in GenLists
  /\ genPc = 1
  /\ genPromise = "pending"
  /\ airdropTree = <<>>
  /\ outputDir \in BOOLEAN
  /\ written = {}

GenIdle ==
  /\ genUsers = <<>>
  /\ genPc = 1
  /\ genPromise = "pending"
  /\ airdropTree = <<>>
  /\ outputDir = FALSE
  /\ written = {}

\* const airdropTree = new AirdropMerkleTree(ELIGIBLE_USERS), and getStats():
\* a throw rejects the promise of the async function and ends it.
GenBuildTree ==
  /\ genPromise = "pending"
  /\ Statement = "tree"
  /\ IF ConstructorThrows(genUsers)
     THEN /\ genPromise' = "rejected"
          /\ UNCHANGED <<genPc, airdropTree>>
     ELSE /\ airdropTree' = GenerateMerkleTree(genUsers)
          /\ genPc' = genPc + 1
          /\ UNCHANGED genPromise
  /\ UNCHANGED <<genUsers, outputDir, written>>

\* getAllEligibleWithProofs(), and the loop that verifies the first three
\* proofs: both call createLeaf again and need the tree.
GenUseTree ==
  /\ genPromise = "pending"
  /\ Statement \in {"proofs", "verify"}
  /\ IF ConstructorThrows(genUsers) \/ airdropTree = <<>>
     THEN /\ genPromise' = "rejected"
          /\ UNCHANGED genPc
     ELSE /\ genPc' = genPc + 1
          /\ UNCHANGED genPromise
  /\ UNCHANGED <<genUsers, airdropTree, outputDir, written>>

\* if (!fs.existsSync(outputDir)) fs.mkdirSync(outputDir)
GenMkdir ==
  /\ genPromise = "pending"
  /\ Statement = "mkdir"
  /\ outputDir' = TRUE
  /\ genPc' = genPc + 1
  /\ UNCHANGED <<genUsers, genPromise, airdropTree, written>>

\* fs.writeFileSync(`${outputDir}/...`): throws when the directory is missing.
GenWriteFile ==
  /\ genPromise = "pending"
  /\ Statement \in GenFiles
  /\ IF outputDir
     THEN /\ written' = written \cup {Statement}
          /\ genPc' = genPc + 1
          /\ UNCHANGED genPromise
     ELSE /\ genPromise' = "rejected"
          /\ UNCHANGED <<genPc, written>>
  /\ UNCHANGED <<genUsers, airdropTree, outputDir>>

\* return {...}: the promise resolves.
GenReturn ==
  /\ genPromise = "pending"
  /\ Statement = "return"
  /\ genPromise' = "resolved"
  /\ UNCHANGED <<genUsers, genPc, airdropTree, outputDir, written>>

\* .then(() => { generateCSV(); ... }): builds the tree again, then writes the
\* CSV; a throw inside is caught by the .catch that follows.
GenerateCSV ==
  /\ genPromise = "resolved"
  /\ IF ConstructorThrows(genUsers) \/ ~outputDir
     THEN UNCHANGED written
     ELSE written' = written \cup {"eligible-users.csv"}
  /\ genPromise' = "done"
  /\ UNCHANGED <<genUsers, genPc, airdropTree, outputDir>>

\* .catch(console.error): the rejection is logged and the script ends.
GenCatch ==
  /\ genPromise = "rejected"
  /\ genPromise' = "logged"
  /\ UNCHANGED <<genUsers, genPc, airdropTree, outputDir, written>>

\* ------------------------------------------------------------ the token
\* PayCryptToken (PayCryptToken.sol) over OpenZeppelin v4 ERC20, ERC20Burnable,
\* Ownable and Pausable. Amounts are in units of 50 million tokens, time in
\* years, and a uint256 is a number up to MaxUint.

VARIABLES
  balances,            \* ERC20._balances
  totalSupply,         \* ERC20._totalSupply
  minters,             \* mapping(address => bool) public minters
  vestingSchedule,     \* mapping(address => uint256) public vestingSchedule
  teamTokensReleased,  \* uint256 public teamTokensReleased
  teamVestingStart,    \* uint256 public teamVestingStart
  paused,              \* Pausable._paused
  tokenTime,           \* block.timestamp of the token's chain
  tokenLast,           \* the last transaction on the token, with its result
  burnedSoFar          \* history: the sum of the amounts burned

tokenStorage == <<balances, totalSupply, minters, vestingSchedule,
                  teamTokensReleased, teamVestingStart, paused>>
tokenVars == <<tokenStorage, tokenTime, tokenLast, burnedSoFar>>

TOTAL_SUPPLY == 20
AIRDROP_ALLOCATION == 1
TEAM_ALLOCATION == 4
TREASURY_ALLOCATION == 6
LIQUIDITY_ALLOCATION == 3
ECOSYSTEM_ALLOCATION == 6
VESTING_DURATION == 2

\* type(uint256).max
MaxUint == 2 ^ 5 - 1

\* address(this) of the token; the deployer is Owner.
Token == 7
TokenAccounts == Holders \cup {Token}
Beneficiaries == {1}
MintAmounts == {1, 2, MaxUint}
VestingAmounts == {0, 2, 4}
\* Burns are followed until MaxBurned units have been burned.
MaxBurned == 2

NoTokenTx == [op |-> "constructor", caller |-> Owner, to |-> Owner, amount |-> 0,
              result |-> "ok"]
TokenTx(op, caller, to, amount, result) ==
  [op |-> op, caller |-> caller, to |-> to, amount |-> amount, result |-> result]

\* The state the constructor leaves.
TokenInit ==
  /\ balances = [a \in TokenAccounts |->
                   IF a = Owner
                   THEN TREASURY_ALLOCATION + LIQUIDITY_ALLOCATION + ECOSYSTEM_ALLOCATION
                   ELSE IF a = Token THEN TEAM_ALLOCATION ELSE 0]
  /\ totalSupply = TREASURY_ALLOCATION + LIQUIDITY_ALLOCATION + ECOSYSTEM_ALLOCATION
                   + TEAM_ALLOCATION
  /\ minters = [a \in TokenAccounts |-> FALSE]
  /\ vestingSchedule = [a \in TokenAccounts |-> 0]
  /\ teamTokensReleased = 0
  /\ teamVestingStart = 0
  /\ paused = FALSE
  /\ tokenTime = 0
  /\ tokenLast = NoTokenTx
  /\ burnedSoFar = 0

\* A reverted transaction: the storage is as before.
TokenReverted(op, caller, to, amount, error) ==
  /\ tokenLast' = TokenTx(op, caller, to, amount, error)
  /\ UNCHANGED <<tokenStorage, tokenTime, burnedSoFar>>

TokenDone(op, caller, to, amount) ==
  /\ tokenLast' = TokenTx(op, caller, to, amount, "ok")
  /\ burnedSoFar' = IF op = "burn" THEN burnedSoFar + amount ELSE burnedSoFar
  /\ UNCHANGED tokenTime

\* mintForAirdrop without the check against TOTAL_SUPPLY
MintForAirdropUncapped(caller, to, amount) ==
  IF ~minters[caller] /\ caller # Owner
  THEN TokenReverted("mintForAirdrop", caller, to, amount, "NotMinter")
  ELSE IF totalSupply + amount > MaxUint
  THEN TokenReverted("mintForAirdrop", caller, to, amount, "Panic")
  ELSE IF paused
  THEN TokenReverted("mintForAirdrop", caller, to, amount, "Paused")
  ELSE /\ totalSupply' = totalSupply + amount
       /\ balances' = [balances EXCEPT ![to] = @ + amount]
       /\ TokenDone("mintForAirdrop", caller, to, amount)
       /\ UNCHANGED <<minters, vestingSchedule, teamTokensReleased,
                      teamVestingStart, paused>>

\* mintForAirdrop(to, amount) onlyMinter; totalSupply() + amount is checked
\* arithmetic, and _mint runs _beforeTokenTransfer whenNotPaused.
MintForAirdrop(caller, to, amount) ==
  IF ~minters[caller] /\ caller # Owner
  THEN TokenReverted("mintForAirdrop", caller, to, amount, "NotMinter")
  ELSE IF totalSupply + amount > MaxUint
  THEN TokenReverted("mintForAirdrop", caller, to, amount, "Panic")
  ELSE IF totalSupply + amount > TOTAL_SUPPLY
  THEN TokenReverted("mintForAirdrop", caller, to, amount, "ExceedsAllocation")
  ELSE IF paused
  THEN TokenReverted("mintForAirdrop", caller, to, amount, "Paused")
  ELSE /\ totalSupply' = totalSupply + amount
       /\ balances' = [balances EXCEPT ![to] = @ + amount]
       /\ TokenDone("mintForAirdrop", caller, to, amount)
       /\ UNCHANGED <<minters, vestingSchedule, teamTokensReleased,
                      teamVestingStart, paused>>

\* vestedAmount of releaseVestedTokens and getVestedAmount
VestedAmount(allocation, elapsed) ==
  IF elapsed >= VESTING_DURATION
  THEN allocation
  ELSE (allocation * elapsed) \div VESTING_DURATION

\* releaseVestedTokens(beneficiary) onlyOwner. The releasable amount is
\* vestedAmount - vestingSchedule[beneficiary] in checked arithmetic.
ReleaseVestedTokens(caller, beneficiary) ==
  LET allocation == vestingSchedule[beneficiary]
      elapsed == tokenTime - teamVestingStart
      vestedAmount == VestedAmount(allocation, elapsed)
      releasableAmount == vestedAmount - vestingSchedule[beneficiary]
      Revert(error) ==
        TokenReverted("releaseVestedTokens", caller, beneficiary, 0, error)
  IN  IF caller # Owner THEN Revert("NotOwner")
      ELSE IF tokenTime < teamVestingStart THEN Revert("VestingNotStarted")
      ELSE IF allocation = 0 THEN Revert("NoTokensToVest")
      ELSE IF elapsed < VESTING_DURATION /\ allocation * elapsed > MaxUint
      THEN Revert("Panic")
      ELSE IF releasableAmount < 0 THEN Revert("Panic")
      ELSE IF releasableAmount = 0 THEN Revert("NoTokensToVest")
      ELSE IF vestingSchedule[beneficiary] + releasableAmount > MaxUint
              \/ teamTokensReleased + releasableAmount > MaxUint
      THEN Revert("Panic")
      ELSE IF paused THEN Revert("Paused")
      ELSE IF balances[Token] < releasableAmount THEN Revert("ExceedsBalance")
      ELSE /\ vestingSchedule' =
                [vestingSchedule EXCEPT ![beneficiary] = @ + releasableAmount]
           /\ teamTokensReleased' = teamTokensReleased + releasableAmount
           /\ balances' = [balances EXCEPT ![Token] = @ - releasableAmount,
                                           ![beneficiary] = @ + releasableAmount]
           /\ TokenDone("releaseVestedTokens", caller, beneficiary, releasableAmount)
           /\ UNCHANGED <<totalSupply, minters, teamVestingStart, paused>>

\* addVestingSchedule(beneficiary, amount) onlyOwner
AddVestingSchedule(caller, beneficiary, amount) ==
  IF caller # Owner
  THEN TokenReverted("addVestingSchedule", caller, beneficiary, amount, "NotOwner")
  ELSE /\ vestingSchedule' = [vestingSchedule EXCEPT ![beneficiary] = amount]
       /\ TokenDone("addVestingSchedule", caller, beneficiary, amount)
       /\ UNCHANGED <<balances, totalSupply, minters, teamTokensReleased,
                      teamVestingStart, paused>>

\* addMinter(minter) and removeMinter(minter) onlyOwner
SetMinter(op, caller, minter, value) ==
  IF caller # Owner
  THEN TokenReverted(op, caller, minter, 0, "NotOwner")
  ELSE /\ minters' = [minters EXCEPT ![minter] = value]
       /\ TokenDone(op, caller, minter, 0)
       /\ UNCHANGED <<balances, totalSupply, vestingSchedule, teamTokensReleased,
                      teamVestingStart, paused>>

\* pause() and unpause() onlyOwner; _pause is whenNotPaused, _unpause whenPaused
SetPaused(op, caller, value) ==
  IF caller # Owner THEN TokenReverted(op, caller, caller, 0, "NotOwner")
  ELSE IF paused = value
  THEN TokenReverted(op, caller, caller, 0, IF value THEN "Paused" ELSE "NotPaused")
  ELSE /\ paused' = value
       /\ TokenDone(op, caller, caller, 0)
       /\ UNCHANGED <<balances, totalSupply, minters, vestingSchedule,
                      teamTokensReleased, teamVestingStart>>

\* ERC20Burnable.burn(amount): _burn(msg.sender, amount)
Burn(caller, amount) ==
  IF paused THEN TokenReverted("burn", caller, caller, amount, "Paused")
  ELSE IF balances[caller] < amount
  THEN TokenReverted("burn", caller, caller, amount, "ExceedsBalance")
  ELSE /\ balances' = [balances EXCEPT ![caller] = @ - amount]
       /\ totalSupply' = totalSupply - amount
       /\ TokenDone("burn", caller, caller, amount)
       /\ UNCHANGED <<minters, vestingSchedule, teamTokensReleased,
                      teamVestingStart, paused>>

\* ERC20.transfer(to, amount)
Transfer(caller, to, amount) ==
  IF paused THEN TokenReverted("transfer", caller, to, amount, "Paused")
  ELSE IF balances[caller] < amount
  THEN TokenReverted("transfer", caller, to, amount, "ExceedsBalance")
  ELSE /\ balances' = [[balances EXCEPT ![caller] = @ - amount]
                         EXCEPT ![to] = @ + amount]
       /\ TokenDone("transfer", caller, to, amount)
       /\ UNCHANGED <<totalSupply, minters, vestingSchedule, teamTokensReleased,
                      teamVestingStart, paused>>

\* getSupplyStats(), a view: both subtractions are checked arithmetic.
GetSupplyStats ==
  LET current == totalSupply
      locked == balances[Token]
  IN  IF current - locked < 0 \/ TOTAL_SUPPLY - current < 0
      THEN [reverted |-> TRUE, circulating |-> 0, locked |-> 0, burned |-> 0]
      ELSE [reverted |-> FALSE, circulating |-> current - locked,
            locked |-> locked, burned |-> TOTAL_SUPPLY - current]

\* Time passes on the token's chain.
TokenTick ==
  /\ tokenTime <= MaxTime
  /\ tokenTime' = tokenTime + 1
  /\ UNCHANGED <<tokenStorage, tokenLast, burnedSoFar>>

MintForAirdropCall ==
  \E c \in {Owner, 1, Airdrop}, w \in MintAmounts : MintForAirdrop(c, Airdrop, w)
ReleaseVestedTokensCall ==
  \E c \in {Owner, 1}, b \in Beneficiaries : ReleaseVestedTokens(c, b)
AddVestingScheduleCall ==
  \E c \in {Owner, 1}, b \in Beneficiaries, w \in VestingAmounts :
    AddVestingSchedule(c, b, w)
AddMinterCall == \E c \in {Owner, 1} : SetMinter("addMinter", c, Airdrop, TRUE)
RemoveMinterCall ==
  \E c \in {Owner, 1} : SetMinter("removeMinter", c, Airdrop, FALSE)
PauseCall == \E c \in {Owner, 1} : SetPaused("pause", c, TRUE)
UnpauseCall == \E c \in {Owner, 1} : SetPaused("unpause", c, FALSE)
BurnCall ==
  /\ burnedSoFar < MaxBurned
  /\ \E c \in {Owner, Airdrop} : Burn(c, 1)
TransferCall == Transfer(Airdrop, 1, AIRDROP_ALLOCATION)

\* --------------------------------------- the distributor over the token
\* A distributor whose token is PayCryptToken: safeTransfer calls the token's
\* transfer, whose _beforeTokenTransfer reverts while the token is paused, and
\* the revert undoes the whole claimTokens call. balanceOf stays the ledger the
\* distributor sees (in wei), balances the ledger of the token's own operations.
ClaimTokensIgnoringPause(caller, amount, merkleProof) ==
  ClaimTokens(caller, amount, merkleProof)
ClaimTokensOfToken(caller, amount, merkleProof) ==
  IF ClaimRevert(caller, amount, merkleProof) = "none" /\ paused
  THEN Reverted("claimTokens", caller, amount, merkleProof, "TransferFailed")
  ELSE ClaimTokens(caller, amount, merkleProof)

\* ------------------------------------------------------ specifications

\* What the specifications of the builder and of the distributor leave alone.
auxVars == <<guardVars, uiVars, genVars, tokenVars>>
AuxIdle == GuardIdle /\ UiIdle /\ GenIdle /\ TokenInit

\* The builder object and the distributor at rest.
BuilderIdle ==
  /\ eligibleUsers = Round2
  /\ tree = GenerateMerkleTree(Round2)
  /\ call = NoCall
DistIdle ==
  /\ merkleRoot = GetMerkleRoot(GenerateMerkleTree(Round1))
  /\ claimPeriodEnd = 1
  /\ totalClaimable = RoundTotal(Round1, 1)
  /\ totalClaimed = 0
  /\ hasClaimed = [a \in Claimers |-> FALSE]
  /\ claimedAmount = [a \in Claimers |-> 0]
  /\ balanceOf = [h \in Holders |-> IF h = Owner THEN OwnerTokens ELSE 0]
  /\ blockTimestamp = 0
  /\ claimEvents = [a \in Claimers |-> 0]
  /\ last = NoTx

vars == <<builderVars, distVars, auxVars>>

\* The distributor, for the rounds above; the builder object is not used.
Init ==
  /\ DistInit
  /\ eligibleUsers = Round2
  /\ tree = GenerateMerkleTree(Round2)
  /\ call = NoCall
  /\ AuxIdle

Next ==
  \/ ClaimTokensCall /\ UNCHANGED <<builderVars, auxVars>>
  \/ UpdateAirdropCall /\ UNCHANGED <<builderVars, auxVars>>
  \/ EmergencyWithdrawCall /\ UNCHANGED <<builderVars, auxVars>>
  \/ ExtendClaimPeriodCall /\ UNCHANGED <<builderVars, auxVars>>
  \/ FundCall /\ UNCHANGED <<builderVars, auxVars>>
  \/ Tick /\ UNCHANGED <<builderVars, auxVars>>

Spec == Init /\ [][Next]_vars

\* The builder, for every list; the distributor is deployed and not called.
InitTree ==
  /\ TreeInit
  /\ merkleRoot = GetMerkleRoot(GenerateMerkleTree(Round1))
  /\ claimPeriodEnd = 1
  /\ totalClaimable = 0
  /\ totalClaimed = 0
  /\ hasClaimed = [a \in Claimers |-> FALSE]
  /\ claimedAmount = [a \in Claimers |-> 0]
  /\ balanceOf = [h \in Holders |-> IF h = Owner THEN OwnerTokens ELSE 0]
  /\ blockTimestamp = 0
  /\ claimEvents = [a \in Claimers |-> 0]
  /\ last = NoTx
  /\ AuxIdle

NextTree ==
  \/ GetProofQuery /\ UNCHANGED <<distVars, auxVars>>
  \/ VerifyProofQuery /\ UNCHANGED <<distVars, auxVars>>
  \/ ReorderList /\ UNCHANGED <<distVars, auxVars>>

SpecTree == InitTree /\ [][NextTree]_vars

\* The builder's output deployed: the generated deploy script gives the
\* distributor the root and the total of the list and transfers that total to
\* it; the claim page then calls claimTokens with the entry's amount in wei and
\* the proof the builder wrote for it.
DeployInit ==
  /\ TreeInit
  /\ merkleRoot = GetMerkleRoot(tree)
  /\ claimPeriodEnd = MaxTime + 1
  /\ totalClaimable = RoundTotal(eligibleUsers, 1)
  /\ totalClaimed = 0
  /\ hasClaimed = [a \in Claimers |-> FALSE]
  /\ claimedAmount = [a \in Claimers |-> 0]
  /\ balanceOf = [h \in Holders |->
                    IF h = Airdrop THEN RoundTotal(eligibleUsers, 1) ELSE 0]
  /\ blockTimestamp = 0
  /\ claimEvents = [a \in Claimers |-> 0]
  /\ last = NoTx

\* contract.claimTokens(amountWei, claimData.proof) for the connected wallet
ClaimWithIssuedProof ==
  \E a \in Claimers, m \in AmountStrings :
    ClaimTokens(a, ParseEther(m), GetProof(tree, a, m))

InitDeploy == DeployInit /\ AuxIdle

NextDeploy ==
  \/ ClaimWithIssuedProof /\ UNCHANGED <<builderVars, auxVars>>
  \/ Tick /\ UNCHANGED <<builderVars, auxVars>>

SpecDeploy == InitDeploy /\ [][NextDeploy]_vars

\* The distributor with claimTokens split at its transfer.
InitReentrant ==
  /\ DistInit
  /\ eligibleUsers = Round2
  /\ tree = GenerateMerkleTree(Round2)
  /\ call = NoCall
  /\ AuxIdle

\* Another transaction runs only between transactions, not inside a transfer.
NextReentrant ==
  \/ ClaimEnterCall /\ UNCHANGED <<builderVars, uiVars, genVars, tokenVars>>
  \/ ClaimNestedCall /\ UNCHANGED <<builderVars, uiVars, genVars, tokenVars>>
  \/ ClaimTransferDone /\ UNCHANGED <<builderVars, uiVars, genVars, tokenVars>>
  \/ pending = NoPending /\ FundCall /\ UNCHANGED <<builderVars, auxVars>>

SpecReentrant == InitReentrant /\ [][NextReentrant]_vars

\* The claim page; the contracts are not called.
InitUI == BuilderIdle /\ DistIdle /\ GuardIdle /\ UiIdle /\ GenIdle /\ TokenInit

NextUI ==
  \/ ConnectWalletCall /\ UNCHANGED <<builderVars, distVars, guardVars, genVars, tokenVars>>
  \/ DisconnectWallet /\ UNCHANGED <<builderVars, distVars, guardVars, genVars, tokenVars>>
  \/ CheckEligibility /\ UNCHANGED <<builderVars, distVars, guardVars, genVars, tokenVars>>

SpecUI == InitUI /\ [][NextUI]_vars

\* The generator script, run once on every list; nothing else runs.
InitGen == BuilderIdle /\ DistIdle /\ GuardIdle /\ UiIdle /\ TokenInit /\ GenInit

notGen == <<builderVars, distVars, guardVars, uiVars, tokenVars>>

NextGen ==
  \/ GenBuildTree /\ UNCHANGED notGen
  \/ GenUseTree /\ UNCHANGED notGen
  \/ GenMkdir /\ UNCHANGED notGen
  \/ GenWriteFile /\ UNCHANGED notGen
  \/ GenReturn /\ UNCHANGED notGen
  \/ GenerateCSV /\ UNCHANGED notGen
  \/ GenCatch /\ UNCHANGED notGen

SpecGen == InitGen /\ [][NextGen]_vars

\* The token; the distributor is not called.
InitToken == BuilderIdle /\ DistIdle /\ GuardIdle /\ UiIdle /\ GenIdle /\ TokenInit

notToken == <<builderVars, distVars, guardVars, uiVars, genVars>>

NextToken ==
  \/ MintForAirdropCall /\ UNCHANGED notToken
  \/ ReleaseVestedTokensCall /\ UNCHANGED notToken
  \/ AddVestingScheduleCall /\ UNCHANGED notToken
  \/ AddMinterCall /\ UNCHANGED notToken
  \/ RemoveMinterCall /\ UNCHANGED notToken
  \/ PauseCall /\ UNCHANGED notToken
  \/ UnpauseCall /\ UNCHANGED notToken
  \/ BurnCall /\ UNCHANGED notToken
  \/ TransferCall /\ UNCHANGED notToken
  \/ TokenTick /\ UNCHANGED notToken

SpecToken == InitToken /\ [][NextToken]_vars

\* The distributor over the token, and the owner pausing it. The deploy
\* script's transfer is a transfer of the token too.
InitPaused == BuilderIdle /\ DistIdle /\ AuxIdle

NextPaused ==
  \/ /\ \E i \in 1..Len(Round1) :
          /\ Round1[i].address \in Claimers
          /\ ClaimTokensOfToken(Round1[i].address, ParseEther(Round1[i].amount),
                                GetProof(GenerateMerkleTree(Round1),
                                         Round1[i].address, Round1[i].amount))
     /\ UNCHANGED <<builderVars, auxVars>>
  \/ ~paused /\ FundCall /\ UNCHANGED <<builderVars, auxVars>>
  \/ PauseCall /\ UNCHANGED notToken
  \/ UnpauseCall /\ UNCHANGED notToken
  \/ MintForAirdrop(Owner, Airdrop, AIRDROP_ALLOCATION) /\ UNCHANGED notToken
  \/ ReleaseVestedTokens(Owner, Owner) /\ UNCHANGED notToken
  \/ burnedSoFar < MaxBurned /\ Burn(Owner, 1) /\ UNCHANGED notToken
  \/ TransferCall /\ UNCHANGED notToken

SpecPaused == InitPaused /\ [][NextPaused]_vars

\* ================================================================ claims

ClaimCall(tx) == tx.op = "claimTokens"

\* The five named errors of claimTokens' checks.
CheckErrors == {"ClaimPeriodEnded", "AlreadyClaimed", "InvalidAmount",
                "InvalidProof", "InsufficientTokens"}

\* C1: claimTokens succeeds at most once per address. Once a TokensClaimed event
\* for a is in the log, every later claimTokens call by a, whatever its amount and
\* proof, fails and emits nothing, and inside the window it reverts with
\* AlreadyClaimed.
C1_ClaimAtMostOnce ==
  [][\A a \in Claimers :
       (claimEvents[a] >= 1 /\ ClaimCall(last') /\ last'.caller = a)
         => /\ last'.result # "ok"
            /\ claimEvents'[a] = claimEvents[a]
            /\ (blockTimestamp <= claimPeriodEnd => last'.result = "AlreadyClaimed")]_vars

\* A second claim of an address that claimed under an earlier root, with another
\* amount and a proof that is valid against the root installed since.
C1_Witness ==
  /\ ClaimCall(last)
  /\ last.result = "AlreadyClaimed"
  /\ claimEvents[last.caller] = 1
  /\ last.amount # claimedAmount[last.caller]
  /\ last.amount # 0
  /\ MerkleProofVerify(last.proof, merkleRoot, ClaimLeaf(last.caller, last.amount))

\* C2: totalClaimed <= totalClaimable in every reachable state.
C2_ClaimedWithinCap == totalClaimed <= totalClaimable

\* C3: the window gate of claimTokens is exactly block time <= claimPeriodEnd: a
\* call reverts with ClaimPeriodEnded exactly when the block time is greater than
\* claimPeriodEnd, whatever the caller, amount and proof, and there is no other gate
\* on time.
C3_WindowGate ==
  ClaimCall(last) =>
    (last.result = "ClaimPeriodEnded" <=> blockTimestamp > claimPeriodEnd)

\* A claim one tick after the end that passes every other check.
C3_Witness ==
  /\ ClaimCall(last)
  /\ last.result = "ClaimPeriodEnded"
  /\ blockTimestamp = claimPeriodEnd + 1
  /\ ~hasClaimed[last.caller]
  /\ last.amount # 0
  /\ MerkleProofVerify(last.proof, merkleRoot, ClaimLeaf(last.caller, last.amount))
  /\ totalClaimed + last.amount <= totalClaimable
  /\ balanceOf[Airdrop] >= last.amount

\* C4: a claimTokens call that fails one of the five checks changes nothing: the
\* storage, the token balances and the log are as before, and nothing is emitted.
C4_RevertChangesNothing ==
  [][(ClaimCall(last') /\ last'.result \in CheckErrors)
       => /\ UNCHANGED <<storage, balanceOf, claimEvents, blockTimestamp>>
          /\ last'.emitted = <<>>]_vars

\* A claim with a valid proof that fails the last check, the cap.
C4_Witness ==
  /\ ClaimCall(last)
  /\ last.result = "InsufficientTokens"
  /\ ~hasClaimed[last.caller]
  /\ claimedAmount[last.caller] = 0
  /\ totalClaimed > 0

RECURSIVE SumOver(_, _)
SumOver(f, S) ==
  IF S = {} THEN 0
  ELSE LET a == CHOOSE x \in S : TRUE IN f[a] + SumOver(f, S \ {a})

\* C5: a successful claimTokens(amount, proof) by a sets hasClaimed[a], sets
\* claimedAmount[a] to amount, adds amount to totalClaimed, moves amount tokens
\* from the distributor to a, emits one TokensClaimed(a, amount, now), and changes
\* nothing else; and no state shows only a part of it: an address is marked
\* exactly when it has an amount and an event, and totalClaimed is the sum of the
\* recorded amounts.
C5_ClaimEffects ==
  /\ [](/\ \A a \in Claimers :
             /\ hasClaimed[a] <=> claimedAmount[a] > 0
             /\ hasClaimed[a] <=> claimEvents[a] = 1
        /\ totalClaimed = SumOver(claimedAmount, Claimers))
  /\ [][(ClaimCall(last') /\ last'.result = "ok")
          => /\ hasClaimed' = [hasClaimed EXCEPT ![last'.caller] = TRUE]
             /\ claimedAmount' = [claimedAmount EXCEPT ![last'.caller] = last'.amount]
             /\ totalClaimed' = totalClaimed + last'.amount
             /\ balanceOf' = [balanceOf EXCEPT ![Airdrop] = @ - last'.amount,
                                               ![last'.caller] = @ + last'.amount]
             /\ claimEvents' = [claimEvents EXCEPT ![last'.caller] = @ + 1]
             /\ last'.emitted = <<[event |-> "TokensClaimed",
                                   claimer |-> last'.caller,
                                   amount |-> last'.amount,
                                   timestamp |-> blockTimestamp]>>
             /\ UNCHANGED <<merkleRoot, claimPeriodEnd, totalClaimable,
                            blockTimestamp>>]_vars

\* A successful claim while another address has its own record.
C5_Witness ==
  /\ ClaimCall(last)
  /\ last.result = "ok"
  /\ \E b \in Claimers : b # last.caller /\ hasClaimed[b]

\* C6: the claim record is monotonic: once hasClaimed[a] is true it stays true and
\* claimedAmount[a] keeps its value, under every operation.
C6_RecordMonotonic ==
  [][\A a \in Claimers :
       hasClaimed[a] => (hasClaimed'[a] /\ claimedAmount'[a] = claimedAmount[a])]_vars

\* updateAirdrop has replaced the root under which an address claimed.
C6_Witness ==
  /\ last.op = "updateAirdrop"
  /\ last.result = "ok"
  /\ \E a \in Claimers :
       /\ hasClaimed[a]
       /\ \A p \in RoundProofs :
            ~MerkleProofVerify(p, merkleRoot, ClaimLeaf(a, claimedAmount[a]))

\* The round whose root the distributor holds lists (user, m) and issued `proof`
\* for it, and does not list user with the amount `amountWei`.
IssuedForOtherAmount(user, amountWei, proof) ==
  \E r \in Rounds, m \in AmountStrings :
    /\ merkleRoot = GetMerkleRoot(GenerateMerkleTree(r))
    /\ Listed(r, user, m)
    /\ proof = GetProof(GenerateMerkleTree(r), user, m)
    /\ ParseEther(m) # amountWei
    /\ \A m2 \in AmountStrings : Listed(r, user, m2) => ParseEther(m2) # amountWei

\* The builder's own verifyProof refuses the proof for every amount string that
\* stands for amountWei.
BuilderRefuses(user, amountWei, proof) ==
  \A r \in Rounds, m2 \in AmountStrings \cup {0} :
    (merkleRoot = GetMerkleRoot(GenerateMerkleTree(r)) /\ ParseEther(m2) = amountWei)
      => ~VerifyProof(GenerateMerkleTree(r), user, m2, proof)

\* C9, as claimed: a claimTokens call with the proof of a listed entry and another
\* amount reverts with InvalidProof, canClaim returns false and the builder's
\* verifyProof returns false.
C9_AsClaimed ==
  (ClaimCall(last) /\ IssuedForOtherAmount(last.caller, last.amount, last.proof))
    => /\ last.result = "InvalidProof"
       /\ ~CanClaim(last.caller, last.amount, last.proof)
       /\ BuilderRefuses(last.caller, last.amount, last.proof)

\* C9, amended: a proof is bound to the amount. A claimTokens call with the proof
\* of a listed entry and another amount never succeeds; it reverts with
\* InvalidProof when the checks before the proof pass (window open, caller has not
\* claimed, amount not zero) and with the error of the first failing check
\* otherwise; canClaim returns false and the builder's verifyProof returns false.
C9_ProofBoundToAmount ==
  (ClaimCall(last) /\ IssuedForOtherAmount(last.caller, last.amount, last.proof))
    => /\ last.result \in {"ClaimPeriodEnded", "AlreadyClaimed", "InvalidAmount",
                           "InvalidProof"}
       /\ (blockTimestamp <= claimPeriodEnd /\ ~hasClaimed[last.caller]
             /\ last.amount # 0) => last.result = "InvalidProof"
       /\ ~CanClaim(last.caller, last.amount, last.proof)
       /\ BuilderRefuses(last.caller, last.amount, last.proof)

\* The proof of a listed entry, used for another amount, fails the proof check.
C9_Witness ==
  /\ ClaimCall(last)
  /\ IssuedForOtherAmount(last.caller, last.amount, last.proof)
  /\ last.result = "InvalidProof"
  /\ Len(last.proof) > 0

\* C7: for every entry of a list, the proof getProof returns for it makes
\* verifyProof return true against the tree's root, for lists of odd length and
\* of length 1 too.
C7_IssuedProofVerifies ==
  (/\ call.op = "verifyProof"
   /\ Listed(eligibleUsers, call.address, call.amount)
   /\ call.proof = GetProof(tree, call.address, call.amount))
    => call.verified

\* The last entry of a list of three, whose leaf has no sibling in the first layer.
C7_Witness ==
  /\ call.op = "verifyProof"
  /\ Len(eligibleUsers) = 3
  /\ eligibleUsers[3] = [address |-> call.address, amount |-> call.amount]
  /\ call.proof = GetProof(tree, call.address, call.amount)
  /\ Len(call.proof) = 1
  /\ call.verified

\* C8: for a tree of two or more entries and a pair that is not in the list,
\* getProof returns the empty proof, and verifyProof returns false for the empty
\* proof and for every proof the tree issued for a listed entry.
C8_UnlistedHasNoProof ==
  (Len(eligibleUsers) >= 2 /\ ~Listed(eligibleUsers, call.address, call.amount))
    => /\ call.op = "getProof" => call.proofOut = <<>>
       /\ call.op = "verifyProof" => ~call.verified

\* An unlisted pair checked against a proof issued for a listed entry.
C8_Witness ==
  /\ call.op = "verifyProof"
  /\ Len(eligibleUsers) >= 2
  /\ ~Listed(eligibleUsers, call.address, call.amount)
  /\ Len(call.proof) > 0
  /\ ~call.verified

C11_BuilderAndVerifierAgree ==
  /\ \A i \in 1..Len(eligibleUsers) :
       ProcessProof(GetProof(tree, eligibleUsers[i].address, eligibleUsers[i].amount),
                    1,
                    ClaimLeaf(eligibleUsers[i].address,
                              ParseEther(eligibleUsers[i].amount))) = merkleRoot
  /\ \A m \in AmountStrings :
       (/\ ClaimCall(last)
        /\ Listed(eligibleUsers, last.caller, m)
        /\ last.amount = ParseEther(m)
        /\ last.proof = GetProof(tree, last.caller, m))
         => /\ last.result \in {"ok", "AlreadyClaimed"}
            /\ last.result = "AlreadyClaimed" => claimEvents[last.caller] = 1

\* The last entry of a list of three, carried up unpaired, has claimed.
C11_Witness ==
  /\ ClaimCall(last)
  /\ last.result = "ok"
  /\ Len(eligibleUsers) = 3
  /\ eligibleUsers[3].address = last.caller
  /\ Len(last.proof) = 1
  /\ merkleRoot = GetMerkleRoot(tree)

\* C12: the window only moves forward under extendClaimPeriod. A call with
\* newEndTime <= claimPeriodEnd reverts and leaves claimPeriodEnd as it is; a
\* successful call sets claimPeriodEnd to newEndTime, which is greater than
\* before, and changes nothing else: the root, the cap, totalClaimed, the claim
\* records, the balances and the log stay.
C12_WindowMovesForward ==
  [][last'.op = "extendClaimPeriod"
       => /\ last'.amount <= claimPeriodEnd
               => (last'.result # "ok" /\ UNCHANGED <<storage, balanceOf, claimEvents>>)
          /\ last'.result = "ok"
               => /\ claimPeriodEnd' = last'.amount
                  /\ claimPeriodEnd' > claimPeriodEnd
                  /\ UNCHANGED <<merkleRoot, totalClaimable, totalClaimed, hasClaimed,
                                 claimedAmount, balanceOf, claimEvents,
                                 blockTimestamp>>]_vars

\* The owner has extended the window after a claim was made.
C12_Witness ==
  /\ last.op = "extendClaimPeriod"
  /\ last.result = "ok"
  /\ claimPeriodEnd = last.amount
  /\ blockTimestamp = claimPeriodEnd - 1
  /\ totalClaimed > 0

\* C13: re-entrancy is excluded. While the transfer of a claimTokens call is
\* running, the guard is held and the caller's record and totalClaimed are
\* already written; every claimTokens call made from inside the transfer, by
\* the same or another address, reverts and changes nothing; and when the
\* transfer returns the outer claim completes with the storage it had written.
C13_NoNestedClaim ==
  /\ [](pending # NoPending
          => /\ guardStatus = "ENTERED"
             /\ hasClaimed[pending.caller]
             /\ claimedAmount[pending.caller] = pending.amount
             /\ totalClaimed = pending.before[3] + pending.amount)
  /\ [][(pending # NoPending /\ pending' # NoPending)
          => /\ last'.result = "ReentrantCall"
             /\ UNCHANGED <<storage, balanceOf, claimEvents>>]_vars
  /\ [][(pending # NoPending /\ pending' = NoPending /\ last'.result = "ok")
          => UNCHANGED storage]_vars

\* A nested claim by another address that would pass every check of claimTokens
\* and be paid has been refused.
C13_Witness ==
  /\ pending # NoPending
  /\ ClaimCall(last)
  /\ last.result = "ReentrantCall"
  /\ last.caller # pending.caller
  /\ ClaimRevert(last.caller, last.amount, last.proof) = "none"
  /\ balanceOf[Airdrop] >= last.amount + pending.amount

\* The last transaction was a claimTokens call that one of the five checks
\* rejected. It left the state as it was, so the state is the one it was
\* rejected in.
JustRejected == ClaimCall(last) /\ last.result \in CheckErrors

\* The call that was just rejected would be rejected after this step too.
StillRejected ==
  ClaimChecks(merkleRoot', claimPeriodEnd', totalClaimable', totalClaimed',
              hasClaimed', blockTimestamp', last.caller, last.amount, last.proof)
    \in CheckErrors

\* The step is a successful updateAirdrop or extendClaimPeriod.
OwnerChange == last'.op \in {"updateAirdrop", "extendClaimPeriod"} /\ last'.result = "ok"

\* C14, as claimed: a claimTokens call that is rejected with one of the five
\* errors is rejected in every later state, whatever happens in between: after
\* any operation that follows the rejection, the same call would still be
\* rejected. (No operation reads the record of the last transaction, so the
\* step after each rejection stands for every later step.)
C14_AsClaimed == [][JustRejected => StillRejected]_vars

\* C14, amended: a rejected claimTokens call stays rejected in every later
\* state reached without a successful updateAirdrop or extendClaimPeriod in
\* between (other claims, emergencyWithdraw, funding, failed owner calls and
\* the passage of time keep it rejected), and a call rejected with
\* AlreadyClaimed or InvalidAmount stays rejected whatever happens.
C14_RejectedUntilOwnerChange ==
  [][JustRejected
       => /\ ~OwnerChange => StillRejected
          /\ last.result \in {"AlreadyClaimed", "InvalidAmount"} => StillRejected]_vars

\* After the window has ended and the owner has withdrawn the rest, an address
\* that never claimed is rejected with a valid proof.
C14_Witness ==
  /\ JustRejected
  /\ last.result = "ClaimPeriodEnded"
  /\ ~hasClaimed[last.caller]
  /\ MerkleProofVerify(last.proof, merkleRoot, ClaimLeaf(last.caller, last.amount))
  /\ balanceOf[Airdrop] = 0
  /\ totalClaimed > 0

\* C15: the lookup of the claim page follows the keying of the proof file. The
\* builder writes each entry under its lower-cased address; and once
\* checkEligibility has run for the connected wallet, if the wallet's address
\* equals, letter case aside, the key of an entry of ELIGIBLE_ADDRESSES, then
\* claimData is that entry, so that the wallet is not shown as not eligible.
C15_EligibleWalletFound ==
  /\ \A e \in {ELIGIBLE_ADDRESSES[k] : k \in DOMAIN ELIGIBLE_ADDRESSES} :
       DOMAIN FrontendData({e}) = {ToLowerCase(e.address)}
  /\ (walletAddress # NoWallet /\ ~effectPending)
       => \A k \in DOMAIN ELIGIBLE_ADDRESSES :
            ToLowerCase(k) = ToLowerCase(walletAddress)
              => claimData = ELIGIBLE_ADDRESSES[k]

\* C16: canClaim predicts claimTokens. For every user, amount and proof,
\* canClaim(user, amount, proof) returns true in a state exactly when the
\* claimTokens(amount, proof) call the user makes in that state succeeds.
C16_CanClaimPredictsClaim ==
  [][ClaimCall(last')
       => (CanClaim(last'.caller, last'.amount, last'.proof)
             <=> last'.result = "ok")]_vars

\* C17: getAirdropStats never reverts and returns (totalClaimable,
\* totalClaimed, totalClaimable - totalClaimed, claimPeriodEnd, block time <=
\* claimPeriodEnd): remaining + claimed = claimable, and the active flag is
\* true exactly when a claim passes the window check.
C17_StatsAlwaysAnswer ==
  /\ ~GetAirdropStats.reverted
  /\ GetAirdropStats.values[3] + GetAirdropStats.values[2] = GetAirdropStats.values[1]
  /\ GetAirdropStats.values[1] = totalClaimable
  /\ GetAirdropStats.values[2] = totalClaimed
  /\ GetAirdropStats.values[4] = claimPeriodEnd
  /\ GetAirdropStats.values[5] <=> (blockTimestamp <= claimPeriodEnd)

\* C18: when building the tree fails for some entry of the eligible list, the
\* run writes none of deployment-config.json, eligible-addresses.json,
\* eligible-users-detailed.json, deploy.ts and the CSV.
C18_NothingWrittenOnBadList == ConstructorThrows(genUsers) => written = {}

\* The run was rejected on a list whose first entry is well-formed and whose
\* second is not, and the rejection was logged.
C18_Witness ==
  /\ genPromise = "logged"
  /\ Len(genUsers) >= 2
  /\ ~CreateLeafThrows(genUsers[1].address, genUsers[1].amount)
  /\ genUsers[2].address = BadAddress
  /\ written = {}

\* C19: a releaseVestedTokens call by the owner for a beneficiary with a
\* nonzero allocation, at elapsed time e > 0, succeeds.
C19_ReleaseSucceeds ==
  [][(/\ tokenLast'.op = "releaseVestedTokens"
      /\ tokenLast' # tokenLast
      /\ tokenLast'.caller = Owner
      /\ vestingSchedule[tokenLast'.to] > 0
      /\ tokenTime > teamVestingStart
      /\ ~paused)
     => tokenLast'.result = "ok"]_vars

\* A mintForAirdrop call that would take the supply above TOTAL_SUPPLY.
MintExceeds ==
  /\ tokenLast'.op = "mintForAirdrop"
  /\ tokenLast' # tokenLast
  /\ totalSupply + tokenLast'.amount > TOTAL_SUPPLY

\* C20 as claimed: the supply never exceeds TOTAL_SUPPLY, and every
\* mintForAirdrop call that would exceed it reverts with ExceedsAllocation,
\* balances and supply unchanged.
C20_AsClaimed ==
  /\ [](totalSupply <= TOTAL_SUPPLY)
  /\ [][MintExceeds =>
         /\ tokenLast'.result = "ExceedsAllocation"
         /\ UNCHANGED <<balances, totalSupply>>]_vars

\* C20: the supply never exceeds TOTAL_SUPPLY, and a mintForAirdrop call that
\* would exceed it leaves balances and supply unchanged, reverting with
\* ExceedsAllocation when the caller is the owner or a minter and
\* totalSupply() + amount does not overflow a uint256.
C20_SupplyCapped ==
  /\ [](totalSupply <= TOTAL_SUPPLY)
  /\ [][MintExceeds =>
         /\ UNCHANGED <<balances, totalSupply>>
         /\ tokenLast'.result =
              IF ~minters[tokenLast'.caller] /\ tokenLast'.caller # Owner
              THEN "NotMinter"
              ELSE IF totalSupply + tokenLast'.amount > MaxUint
              THEN "Panic"
              ELSE "ExceedsAllocation"]_vars

\* A minter's mint was refused with ExceedsAllocation at a supply that an
\* earlier mint had brought to TOTAL_SUPPLY.
C20_Witness ==
  /\ tokenLast.op = "mintForAirdrop"
  /\ tokenLast.result = "ExceedsAllocation"
  /\ tokenLast.caller = Airdrop
  /\ totalSupply = TOTAL_SUPPLY
  /\ balances[Airdrop] > 0

\* C21: in every reachable state getSupplyStats returns burned equal to the
\* amount burned so far, locked equal to the token contract's own balance and
\* circulating equal to totalSupply minus locked.
C21_SupplyStats ==
  GetSupplyStats = [reverted |-> FALSE,
                    circulating |-> totalSupply - balances[Token],
                    locked |-> balances[Token],
                    burned |-> burnedSoFar]

C23_WithdrawOnlyAfterWindow ==
  [][last'.op = "emergencyWithdraw" =>
       IF last'.caller # Owner \/ blockTimestamp <= claimPeriodEnd
       THEN /\ last'.result # "ok"
            /\ UNCHANGED <<balanceOf, storage, claimEvents>>
       ELSE /\ last'.result = "ok"
            /\ balanceOf' = [balanceOf EXCEPT ![Airdrop] = 0,
                                              ![Owner] = @ + balanceOf[Airdrop]]
            /\ UNCHANGED <<storage, claimEvents>>]_vars

\* The owner has withdrawn what was left after a claim.
C23_Witness ==
  /\ last.op = "emergencyWithdraw"
  /\ last.result = "ok"
  /\ last.emitted # <<>>
  /\ balanceOf[Airdrop] = 0
  /\ totalClaimed > 0
  /\ blockTimestamp > claimPeriodEnd

\* C24: each failing check of claimTokens has its own error, with a fixed
\* precedence: ClaimPeriodEnded if the time is past claimPeriodEnd, otherwise
\* AlreadyClaimed if the caller has claimed, otherwise InvalidAmount if the
\* amount is 0, otherwise InvalidProof if the proof does not verify, otherwise
\* InsufficientTokens if totalClaimed + amount > totalClaimable. (A reverted
\* call leaves the state it was made in.)
C24_ErrorPrecedence ==
  (ClaimCall(last) /\ last.result # "ok") =>
    IF blockTimestamp > claimPeriodEnd THEN last.result = "ClaimPeriodEnded"
    ELSE IF hasClaimed[last.caller] THEN last.result = "AlreadyClaimed"
    ELSE IF last.amount = 0 THEN last.result = "InvalidAmount"
    ELSE IF ~MerkleProofVerify(last.proof, merkleRoot,
                               ClaimLeaf(last.caller, last.amount))
      THEN last.result = "InvalidProof"
    ELSE IF totalClaimed + last.amount > totalClaimable
      THEN last.result = "InsufficientTokens"
    ELSE last.result \notin CheckErrors

\* A call that fails the proof check and the cap check is reported as
\* InvalidProof.
C24_Witness ==
  /\ ClaimCall(last)
  /\ last.result = "InvalidProof"
  /\ totalClaimed + last.amount > totalClaimable
  /\ last.proof # <<>>

\* C25: for every address u, getClaimStatus(u) returns claimed = hasClaimed[u],
\* amount = the amount u claimed (what u received from the distributor), which
\* is 0 if u has not claimed and positive if it has, and canStillClaim = not
\* claimed and block time <= claimPeriodEnd.
C25_ClaimStatus ==
  \A u \in Claimers :
    /\ GetClaimStatus(u).claimed = hasClaimed[u]
    /\ GetClaimStatus(u).amount = balanceOf[u]
    /\ hasClaimed[u] <=> GetClaimStatus(u).amount > 0
    /\ GetClaimStatus(u).canStillClaim
         <=> (~hasClaimed[u] /\ blockTimestamp <= claimPeriodEnd)

\* The window has closed with one address having claimed and another not.
C25_Witness ==
  /\ blockTimestamp > claimPeriodEnd
  /\ \E u, v \in Claimers :
       /\ GetClaimStatus(u).claimed
       /\ GetClaimStatus(u).amount > 0
       /\ ~GetClaimStatus(v).claimed
       /\ ~GetClaimStatus(v).canStillClaim

\* C26: totalClaimed equals the sum of claimedAmount[a] over the addresses a
\* with hasClaimed[a] true, in every reachable state, and never decreases from
\* one state to the next.
C26_TotalIsSumOfClaims ==
  /\ [](totalClaimed = SumOver(claimedAmount, {a \in Claimers : hasClaimed[a]}))
  /\ [][totalClaimed' >= totalClaimed]_vars

\* Both addresses have claimed, under different roots, and the owner has
\* withdrawn the rest.
C26_Witness ==
  /\ \A a \in Claimers : hasClaimed[a]
  /\ totalClaimed = ParseEther(2) + ParseEther(2)
  /\ last.op = "emergencyWithdraw"
  /\ last.result = "ok"

\* C27: a claimTokens call that passes the five checks while the distributor
\* holds less than the amount reverts as a whole: what the call wrote before
\* the transfer is undone, hasClaimed[caller] is false, claimedAmount[caller] is
\* 0, totalClaimed is what it was before the call, no token moves; and the same
\* call still passes the five checks, so it succeeds once the distributor is
\* funded.
C27_FailedTransferUndoesClaim ==
  /\ [][(pending # NoPending /\ pending' = NoPending)
          => IF balanceOf[Airdrop] < pending.amount
             THEN /\ last'.result = "TransferFailed"
                  /\ ~hasClaimed'[pending.caller]
                  /\ claimedAmount'[pending.caller] = 0
                  /\ totalClaimed' = totalClaimed - pending.amount
                  /\ totalClaimed' = SumOver(claimedAmount', Claimers)
                  /\ UNCHANGED <<balanceOf, claimEvents>>
             ELSE last'.result = "ok"]_vars
  /\ []((ClaimCall(last) /\ last.result = "TransferFailed" /\ pending = NoPending)
          => ClaimRevert(last.caller, last.amount, last.proof) = "none")

\* On an under-funded distributor, after another address was paid, a claim
\* that passes the checks has failed in its transfer.
C27_Witness ==
  /\ ClaimCall(last)
  /\ last.result = "TransferFailed"
  /\ pending = NoPending
  /\ balanceOf[Airdrop] > 0
  /\ balanceOf[Airdrop] < last.amount
  /\ ~hasClaimed[last.caller]
  /\ totalClaimed > 0

\* C28: with totalClaimable the sum of the listed amounts (distinct addresses),
\* the distributor funded with that sum and no administrative call, what is
\* left of the cap and of the distributor's balance always covers the entries
\* not yet claimed, and a listed address that has not claimed and calls
\* claimTokens with its builder amount and proof in the window succeeds,
\* whatever claims were made before.
C28_EligibleClaimsNeverStarved ==
  /\ [](LET Unclaimed[i \in 0..Len(eligibleUsers)] ==
              IF i = 0 THEN 0
              ELSE Unclaimed[i - 1]
                   + (IF eligibleUsers[i].address \in Claimers
                         /\ hasClaimed[eligibleUsers[i].address]
                      THEN 0 ELSE ParseEther(eligibleUsers[i].amount))
        IN  /\ totalClaimable - totalClaimed >= Unclaimed[Len(eligibleUsers)]
            /\ balanceOf[Airdrop] >= Unclaimed[Len(eligibleUsers)])
  /\ [][\A m \in AmountStrings :
         (/\ ClaimCall(last')
          /\ Listed(eligibleUsers, last'.caller, m)
          /\ last'.amount = ParseEther(m)
          /\ last'.proof = GetProof(tree, last'.caller, m)
          /\ ~hasClaimed[last'.caller]
          /\ blockTimestamp <= claimPeriodEnd)
           => last'.result = "ok"]_vars

\* Both claimers of a list of three were paid, and what is left of the cap is
\* exactly the entry of the third listed address.
C28_Witness ==
  /\ ClaimCall(last)
  /\ last.result = "ok"
  /\ Len(eligibleUsers) = 3
  /\ \A a \in Claimers : hasClaimed[a]
  /\ \A i \in 1..3 : eligibleUsers[i].address \in Claimers \cup {3}
  /\ totalClaimable - totalClaimed = ParseEther(eligibleUsers[3].amount)
  /\ eligibleUsers[3].address = 3

====
